---- MODULE Spec2Model ----
(***************************************************************************)
(* curfil train.cpp: the command-line driver that probes the free memory   *)
(* of the selected GPUs, plans the image cache and the batch size, builds  *)
(* the TrainingConfiguration, trains the ensemble and exports it.          *)
(*                                                                         *)
(* The planner computes in C++ unsigned long (64 bit), long and int        *)
(* (32 bit).  TLC's integers are 32 bit, so a 64-bit value is kept as five *)
(* limbs of 15 bits, least significant first; the top limb holds 4 bits.   *)
(***************************************************************************)
EXTENDS Integers, Sequences, FiniteSets, TLC

----------------------------------------------------------------------------
(* 64-bit unsigned arithmetic on limbs *)

LimbBase == 2^15
TopLimbBase == 2^4

Zero64 == <<0, 0, 0, 0, 0>>

\* the value of a non-negative int as an unsigned long
FromNat(n) ==
    <<n % LimbBase, (n \div LimbBase) % LimbBase, n \div (LimbBase * LimbBase), 0, 0>>

\* hi * 2^30 + lo, for writing down values that do not fit a 32-bit integer
Big(hi, lo) ==
    <<lo % LimbBase, (lo \div LimbBase) % LimbBase,
      hi % LimbBase, (hi \div LimbBase) % LimbBase, hi \div (LimbBase * LimbBase)>>

\* reduction modulo 2^64
Wrap64(a) == <<a[1], a[2], a[3], a[4], a[5] % TopLimbBase>>

WideAdd(a, b) ==
    LET s1 == a[1] + b[1]
        s2 == a[2] + b[2] + (s1 \div LimbBase)
        s3 == a[3] + b[3] + (s2 \div LimbBase)
        s4 == a[4] + b[4] + (s3 \div LimbBase)
        s5 == a[5] + b[5] + (s4 \div LimbBase)
    IN  <<s1 % LimbBase, s2 % LimbBase, s3 % LimbBase, s4 % LimbBase, s5 % LimbBase>>

\* \div rounds down, so the borrow of a negative difference is -1
WideSub(a, b) ==
    LET d1 == a[1] - b[1]
        d2 == a[2] - b[2] + (d1 \div LimbBase)
        d3 == a[3] - b[3] + (d2 \div LimbBase)
        d4 == a[4] - b[4] + (d3 \div LimbBase)
        d5 == a[5] - b[5] + (d4 \div LimbBase)
    IN  <<d1 % LimbBase, d2 % LimbBase, d3 % LimbBase, d4 % LimbBase, d5 % LimbBase>>

\* a * k for one limb k
WideMulLimb(a, k) ==
    LET p1 == a[1] * k
        p2 == a[2] * k + (p1 \div LimbBase)
        p3 == a[3] * k + (p2 \div LimbBase)
        p4 == a[4] * k + (p3 \div LimbBase)
        p5 == a[5] * k + (p4 \div LimbBase)
    IN  <<p1 % LimbBase, p2 % LimbBase, p3 % LimbBase, p4 % LimbBase, p5 % LimbBase>>

WideMul(a, b) ==
    LET m1 == WideMulLimb(a, b[1])
        m2 == WideMulLimb(a, b[2])
        m3 == WideMulLimb(a, b[3])
        m4 == WideMulLimb(a, b[4])
        m5 == WideMulLimb(a, b[5])
    IN  WideAdd(WideAdd(WideAdd(m1, <<0, m2[1], m2[2], m2[3], m2[4]>>),
                        WideAdd(<<0, 0, m3[1], m3[2], m3[3]>>, <<0, 0, 0, m4[1], m4[2]>>)),
                <<0, 0, 0, 0, m5[1]>>)

\* a < b
U64Less(a, b) ==
    CASE a[5] # b[5] -> a[5] < b[5]
      [] a[4] # b[4] -> a[4] < b[4]
      [] a[3] # b[3] -> a[3] < b[3]
      [] a[2] # b[2] -> a[2] < b[2]
      [] OTHER -> a[1] < b[1]

\* a <= b
U64Leq(a, b) == ~U64Less(b, a)

\* C++ unsigned long +, -, * : the result modulo 2^64
U64Add(a, b) == Wrap64(WideAdd(a, b))
U64Sub(a, b) == Wrap64(WideSub(a, b))
U64Mul(a, b) == Wrap64(WideMul(a, b))

RECURSIVE DivDigit(_, _, _, _)
\* the largest q in lo..(hi - 1) with d * q <= r, by bisection
DivDigit(r, d, lo, hi) ==
    IF hi - lo <= 1 THEN lo
    ELSE LET mid == (lo + hi) \div 2
         IN  IF U64Leq(WideMulLimb(d, mid), r) THEN DivDigit(r, d, mid, hi)
             ELSE DivDigit(r, d, lo, mid)

\* one step of long division: bring down one limb, <<quotient limb, remainder>>
DivLimb(r, limb, d) ==
    LET r2 == <<limb, r[1], r[2], r[3], r[4]>>
        q == DivDigit(r2, d, 0, LimbBase)
    IN  <<q, WideSub(r2, WideMulLimb(d, q))>>

\* C++ unsigned long / for a divisor 0 < d < 2^60
U64Div(a, d) ==
    LET s5 == DivLimb(Zero64, a[5], d)
        s4 == DivLimb(s5[2], a[4], d)
        s3 == DivLimb(s4[2], a[3], d)
        s2 == DivLimb(s3[2], a[2], d)
        s1 == DivLimb(s2[2], a[1], d)
    IN  <<s1[1], s2[1], s3[1], s4[1], s5[1]>>

\* int -> unsigned long: a negative int wraps to 2^64 - |n|
FromInt(n) == IF n >= 0 THEN FromNat(n) ELSE U64Sub(Zero64, FromNat(-n))

\* unsigned long -> int: the low 32 bits, read as two's complement
ToInt(u) ==
    LET top2 == u[3] % 4
    IN  u[1] + u[2] * LimbBase + (IF top2 >= 2 THEN top2 - 4 ELSE top2) * (2^30)

----------------------------------------------------------------------------
(* Program constants *)

\* 1024lu * 1024lu
BytesPerMB == FromNat(1024 * 1024)

\* std::min(maxSamplesPerBatch, 50000)
MaxSamplesCeiling == 50000
\* if (maxSamplesPerBatch < 1000) throw
MinSamplesPerBatch == 1000
\* (freeMemoryOnGPU - cache) / 3
BudgetDivisor == 3
\* 10 * (2 * sizeof(WeightType) * featureCount * numThresholds)
HistogramFactor == 10
\* sizeof(WeightType), sizeof(FeatureResponseType): declared in random_tree.h
sizeofWeightType == 4
sizeofFeatureResponseType == 4

CacheTooLargeMsg == "image cache size too large"
HeadroomMsg == "memory headroom on GPU too low. try to decrease image cache size manually"
NoFilesMsg == "found no files in folderTraining"
ProbeFailedMsg == "getFreeMemoryOnGPU failed"
BadModeMsg == "illegal acceleration mode"
TrainFailedMsg == "training failed"
NoOutputWarning == "no output folder given. skipping JSON export"

----------------------------------------------------------------------------
(* Bounds and input sets *)

\* the longest --deviceId list
MaxDevices == 2
\* --deviceId given n times, for devices 0 .. n - 1
DeviceIdLists == {[i \in 1..n |-> i - 1] : n \in 0..MaxDevices}

\* what utils::getFreeMemoryOnGPU may report: 0, 3 MB, 4e9 and 80e9 bytes
FreeMemoryReadings ==
    {Zero64, FromNat(3 * 1024 * 1024), Big(3, 778774528), Big(74, 543105024)}

\* --imageCacheSize, MB
ImageCacheSizeValues == {-1, 0, 3}
\* --featureCount
FeatureCountValues == {0, 1, 2000}
\* --numThresholds
NumThresholdsValues == {1, 20}
\* --mode
ModeStrings == {"gpu", "bogus"}
AccelerationModes == {"gpu", "cpu", "compare"}
\* outputFolder
OutputFolders == {"", "out"}
\* what loadImages may return: the number of images and images[0].getSizeInMemory()
ImageSets ==
    {[count |-> 0, sizeInMemory |-> 0],
     [count |-> 3, sizeInMemory |-> 1228800],
     [count |-> 3000, sizeInMemory |-> 1228800]}
\* what a division by zero may leave in maxSamplesPerBatch when it does not trap
DivisionByZeroResults == {-1, 1000, 50001}

----------------------------------------------------------------------------
(* State *)

VARIABLES
    pc,                   \* the position in main
    exitStatus,           \* "running", "EXIT_SUCCESS", "EXIT_FAILURE", "terminate", "SIGFPE"
    error,                \* what() of the exception that ended the run, or ""
    vm,                   \* the options of the command line that bear on control flow
    deviceIds,
    imageCacheSizeMB,
    featureCount,
    numThresholds,
    modeString,
    outputFolder,
    trainTreesInParallel,
    freeMemoryOnGPU,
    probed,               \* how many entries of deviceIds the loop has visited
    images,               \* <<>> before loadImages, then <<the image set>>
    imageCacheSize,
    maxSamplesPerBatch,
    configuration,        \* <<>> before construction, then <<the TrainingConfiguration>>
    trainerCalls,         \* the calls of RandomTreeImageEnsemble::train, in order
    forest,               \* <<>> until train() has returned, then <<"forest">>
    exporterCalls,        \* the calls of RandomTreeExport::writeJSON, in order
    warnings,
    steps,                \* history: the pipeline steps entered, in order
    minReading,           \* history: <<>>, then <<the least value getFreeMemoryOnGPU returned>>
    requestedCacheSizeMB  \* history: imageCacheSizeMB as parsed

cli == <<vm, deviceIds, imageCacheSizeMB, featureCount, numThresholds, modeString,
         outputFolder, trainTreesInParallel, requestedCacheSizeMB>>
plan == <<freeMemoryOnGPU, probed, images, imageCacheSize, maxSamplesPerBatch, minReading>>
run == <<configuration, trainerCalls, forest, exporterCalls, warnings>>
vars == <<pc, exitStatus, error, steps, cli, plan, run>>

\* main's locals as declared; those without an initializer are written by
\* po::notify before anything reads them
Init ==
    /\ pc = "ParseCommandLine"
    /\ exitStatus = "running"
    /\ error = ""
    /\ vm = {}
    /\ deviceIds = <<>>
    /\ imageCacheSizeMB = 0
    /\ featureCount = 0
    /\ numThresholds = 0
    /\ modeString = ""
    /\ outputFolder = ""
    /\ trainTreesInParallel = TRUE
    /\ freeMemoryOnGPU = Zero64
    /\ probed = 0
    /\ images = <<>>
    /\ imageCacheSize = 0
    /\ maxSamplesPerBatch = 0
    /\ configuration = <<>>
    /\ trainerCalls = <<>>
    /\ forest = <<>>
    /\ exporterCalls = <<>>
    /\ warnings = <<>>
    /\ steps = <<>>
    /\ minReading = <<>>
    /\ requestedCacheSizeMB = 0

\* an exception leaves main uncaught: std::terminate
Throw(msg) ==
    /\ pc' = "Fatal"
    /\ error' = msg
    /\ exitStatus' = "terminate"

\* return from main
Return(label, status) ==
    /\ pc' = label
    /\ exitStatus' = status
    /\ UNCHANGED error

Goto(label) ==
    /\ pc' = label
    /\ UNCHANGED <<exitStatus, error>>

----------------------------------------------------------------------------
(* The planner's arithmetic *)

\* imageCacheSizeMB * 1024lu * 1024lu
CacheBytes(mb) == U64Mul(U64Mul(FromInt(mb), FromNat(1024)), FromNat(1024))

\* freeMemoryOnGPU * 0.66 / 1024 / 1024 truncated to int.  The double product
\* is within one part in 2^52 of free * 66 / 100, never below it, so for
\* minReading below 2^47 the truncation is that of the exact quotient.
AutoCacheSizeMB(free) ==
    ToInt(U64Div(U64Mul(free, FromNat(66)), FromNat(100 * 1024 * 1024)))

\* one pass of the probe loop's body
ProbeUpdate(current, freeMemory) ==
    IF current = Zero64 \/ U64Less(freeMemory, current) THEN freeMemory ELSE current

\* a plausible slip: every image is cached whatever the budget
PlanImageCacheSizeAll(count, sizeInMemory, mb) == ToInt(FromNat(count))

\* the if/else that sets imageCacheSize
PlanImageCacheSize(count, sizeInMemory, mb) ==
    IF U64Leq(U64Mul(FromNat(count), FromNat(sizeInMemory)), CacheBytes(mb))
    THEN ToInt(FromNat(count))
    ELSE ToInt(U64Div(CacheBytes(mb), FromNat(sizeInMemory)))

\* a plausible slip: > for >=
CacheTooLargeStrict(mb, free) == U64Less(free, CacheBytes(mb))

\* imageCacheSizeMB * 1024lu * 1024lu >= freeMemoryOnGPU
CacheTooLarge(mb, free) == U64Leq(free, CacheBytes(mb))

\* 10 * (2 * sizeof(WeightType) * featureCount * numThresholds)
HistogramBytes(fc, nt) ==
    U64Mul(FromNat(HistogramFactor),
           U64Mul(U64Mul(U64Mul(FromNat(2), FromNat(sizeofWeightType)), FromNat(fc)),
                  FromNat(nt)))

\* long remainingMemoryOnGPU after the -=, as its 64-bit pattern
RemainingMemoryOnGPU(free, mb, fc, nt) ==
    U64Sub(U64Div(U64Sub(free, CacheBytes(mb)), FromNat(BudgetDivisor)),
           HistogramBytes(fc, nt))

\* size_t sizePerSample
SizePerSample(fc) ==
    U64Mul(U64Mul(FromNat(2), FromNat(sizeofFeatureResponseType)), FromNat(fc))

\* int maxSamplesPerBatch = remainingMemoryOnGPU / sizePerSample: the long is
\* converted to unsigned long, the quotient narrowed to int
SamplesQuotient(free, mb, fc, nt) ==
    ToInt(U64Div(RemainingMemoryOnGPU(free, mb, fc, nt), SizePerSample(fc)))

\* a plausible slip: the ceiling is not applied
StdMinKeepsFirst(a, b) == a

\* std::min
StdMin(a, b) == IF b < a THEN b ELSE a

\* what lines 196-197 leave in maxSamplesPerBatch, for featureCount > 0
PlannedSamplesPerBatch(free, mb, fc, nt) ==
    StdMin(SamplesQuotient(free, mb, fc, nt), MaxSamplesCeiling)

\* maxSamplesPerBatch < 1000
BelowFloor(samples) == samples < MinSamplesPerBatch

\* TrainingConfiguration::parseAccelerationModeString accepts these
ModeAccepted(mode) == mode \in AccelerationModes

----------------------------------------------------------------------------
(* main, step by step *)

\* argc <= 1 or --help: print the options, return EXIT_FAILURE
ShowHelp ==
    /\ pc = "ParseCommandLine"
    /\ \E opts \in SUBSET {"help", "version", "trainTreesInParallel"} :
          /\ "help" \in opts
          /\ vm' = opts
    /\ Return("Usage", "EXIT_FAILURE")
    /\ UNCHANGED <<steps, deviceIds, imageCacheSizeMB, featureCount, numThresholds,
                   modeString, outputFolder, trainTreesInParallel,
                   requestedCacheSizeMB, plan, run>>

\* --version: print the version, return EXIT_FAILURE
ShowVersion ==
    /\ pc = "ParseCommandLine"
    /\ \E opts \in SUBSET {"version", "trainTreesInParallel"} :
          /\ "version" \in opts
          /\ vm' = opts
    /\ Return("Usage", "EXIT_FAILURE")
    /\ UNCHANGED <<steps, deviceIds, imageCacheSizeMB, featureCount, numThresholds,
                   modeString, outputFolder, trainTreesInParallel,
                   requestedCacheSizeMB, plan, run>>

\* po::notify throws (a required option is missing): caught, return EXIT_FAILURE
NotifyFails ==
    /\ pc = "ParseCommandLine"
    /\ \E opts \in SUBSET {"trainTreesInParallel"} : vm' = opts
    /\ Return("Usage", "EXIT_FAILURE")
    /\ UNCHANGED <<steps, deviceIds, imageCacheSizeMB, featureCount, numThresholds,
                   modeString, outputFolder, trainTreesInParallel,
                   requestedCacheSizeMB, plan, run>>

\* po::notify stores every option: the value given, else the option's default_value
Notify ==
    /\ pc = "ParseCommandLine"
    /\ \E opts \in SUBSET {"trainTreesInParallel"}, given \in BOOLEAN :
          /\ vm' = opts
          /\ trainTreesInParallel' =
                IF "trainTreesInParallel" \in opts THEN given ELSE trainTreesInParallel
          /\ "trainTreesInParallel" \notin opts => given
    /\ \E ids \in DeviceIdLists : deviceIds' = ids
    /\ \E mb \in ImageCacheSizeValues :
          /\ imageCacheSizeMB' = mb
          /\ requestedCacheSizeMB' = mb
    /\ \E fc \in FeatureCountValues : featureCount' = fc
    /\ \E nt \in NumThresholdsValues : numThresholds' = nt
    /\ \E mode \in ModeStrings : modeString' = mode
    /\ \E folder \in OutputFolders : outputFolder' = folder
    /\ Goto("SelectDevices")
    /\ UNCHANGED <<steps, plan, run>>

\* no --deviceId: use device 0; then the probe loop starts
SelectDevices ==
    /\ pc = "SelectDevices"
    /\ deviceIds' = IF deviceIds = <<>> THEN <<0>> ELSE deviceIds
    /\ freeMemoryOnGPU' = Zero64
    /\ probed' = 0
    /\ steps' = Append(steps, "ProbeMemory")
    /\ Goto("ProbeMemory")
    /\ UNCHANGED <<vm, imageCacheSizeMB, featureCount, numThresholds, modeString,
                   outputFolder, trainTreesInParallel, requestedCacheSizeMB,
                   images, imageCacheSize, maxSamplesPerBatch, minReading, run>>

\* the least of the values reported so far and one more
LeastReading(least, freeMemory) ==
    IF least = <<>> \/ U64Less(freeMemory, least[1]) THEN freeMemory ELSE least[1]

\* one pass of for (int deviceId : deviceIds)
ProbeDevice ==
    /\ pc = "ProbeMemory"
    /\ probed < Len(deviceIds)
    /\ \E freeMemory \in FreeMemoryReadings :
          /\ freeMemoryOnGPU' = ProbeUpdate(freeMemoryOnGPU, freeMemory)
          /\ minReading' = <<LeastReading(minReading, freeMemory)>>
    /\ probed' = probed + 1
    /\ Goto("ProbeMemory")
    /\ UNCHANGED <<steps, cli, images, imageCacheSize, maxSamplesPerBatch, run>>

\* utils::getFreeMemoryOnGPU throws
ProbeFails ==
    /\ pc = "ProbeMemory"
    /\ probed < Len(deviceIds)
    /\ Throw(ProbeFailedMsg)
    /\ UNCHANGED <<steps, cli, plan, run>>

\* the loop is over; --imageCacheSize 0 becomes the automatic size
AutoCacheSize ==
    /\ pc = "ProbeMemory"
    /\ probed = Len(deviceIds)
    /\ imageCacheSizeMB' =
          IF imageCacheSizeMB = 0 THEN AutoCacheSizeMB(freeMemoryOnGPU)
          ELSE imageCacheSizeMB
    /\ Goto("LoadImages")
    /\ UNCHANGED <<steps, vm, deviceIds, featureCount, numThresholds, modeString,
                   outputFolder, trainTreesInParallel, requestedCacheSizeMB, plan, run>>

\* loadImages; an empty result throws
LoadImages ==
    /\ pc = "LoadImages"
    /\ steps' = Append(steps, "LoadImages")
    /\ \E loaded \in ImageSets :
          /\ images' = <<loaded>>
          /\ IF loaded.count = 0 THEN Throw(NoFilesMsg) ELSE Goto("PlanCache")
    /\ UNCHANGED <<cli, freeMemoryOnGPU, probed, imageCacheSize, maxSamplesPerBatch,
                   minReading, run>>

\* a plausible slip: the cache budget is not checked
PlanCacheUnchecked ==
    /\ pc = "PlanCache"
    /\ steps' = Append(steps, "PlanCache")
    /\ imageCacheSize' =
          PlanImageCacheSize(images[1].count, images[1].sizeInMemory, imageCacheSizeMB)
    /\ Goto("PlanBatch")
    /\ UNCHANGED <<cli, freeMemoryOnGPU, probed, images, maxSamplesPerBatch,
                   minReading, run>>

\* the image cache size in images, then the check of the cache budget
PlanCache ==
    /\ pc = "PlanCache"
    /\ steps' = Append(steps, "PlanCache")
    /\ imageCacheSize' =
          PlanImageCacheSize(images[1].count, images[1].sizeInMemory, imageCacheSizeMB)
    /\ IF CacheTooLarge(imageCacheSizeMB, freeMemoryOnGPU)
       THEN Throw(CacheTooLargeMsg)
       ELSE Goto("PlanBatch")
    /\ UNCHANGED <<cli, freeMemoryOnGPU, probed, images, maxSamplesPerBatch,
                   minReading, run>>

\* the rest of the batch plan once the quotient is known
FinishPlanBatch(quotient) ==
    LET clamped == StdMin(quotient, MaxSamplesCeiling)
    IN  /\ maxSamplesPerBatch' = clamped
        /\ steps' = Append(steps, "PlanBatch")
        /\ IF BelowFloor(clamped) THEN Throw(HeadroomMsg) ELSE Goto("AssembleConfig")
        /\ UNCHANGED <<cli, freeMemoryOnGPU, probed, images, imageCacheSize,
                       minReading, run>>

\* maxSamplesPerBatch for featureCount > 0
PlanBatch ==
    /\ pc = "PlanBatch"
    /\ featureCount > 0
    /\ FinishPlanBatch(SamplesQuotient(freeMemoryOnGPU, imageCacheSizeMB,
                                       featureCount, numThresholds))

\* featureCount = 0: sizePerSample is 0 and the division is undefined.
\* On x86 the divide instruction traps ...
PlanBatchDivisionTraps ==
    /\ pc = "PlanBatch"
    /\ featureCount = 0
    /\ pc' = "Fatal"
    /\ exitStatus' = "SIGFPE"
    /\ steps' = Append(steps, "PlanBatch")
    /\ UNCHANGED <<error, cli, plan, run>>

\* ... elsewhere it yields some int
PlanBatchDivisionYields ==
    /\ pc = "PlanBatch"
    /\ featureCount = 0
    /\ \E quotient \in DivisionByZeroResults : FinishPlanBatch(quotient)

\* TrainingConfiguration's constructor call; parseAccelerationModeString throws
\* on a mode it does not know
AssembleConfig ==
    /\ pc = "AssembleConfig"
    /\ steps' = Append(steps, "AssembleConfig")
    /\ IF ModeAccepted(modeString)
       THEN /\ configuration' =
                  <<[featureCount |-> featureCount,
                     numThresholds |-> numThresholds,
                     imageCacheSize |-> imageCacheSize,
                     maxSamplesPerBatch |-> maxSamplesPerBatch,
                     accelerationMode |-> modeString,
                     deviceIds |-> deviceIds]>>
            /\ Goto("Train")
       ELSE /\ UNCHANGED configuration
            /\ Throw(BadModeMsg)
    /\ UNCHANGED <<cli, plan, trainerCalls, forest, exporterCalls, warnings>>

\* train(): RandomTreeImageEnsemble::train(trainLabelImages, !trainTreesInParallel)
Train ==
    /\ pc = "Train"
    /\ steps' = Append(steps, "Train")
    /\ trainerCalls' =
          Append(trainerCalls,
                 [sequential |-> ~trainTreesInParallel, configuration |-> configuration[1]])
    /\ \E returns \in BOOLEAN :
          IF returns THEN forest' = <<"forest">> /\ Goto("Export")
          ELSE UNCHANGED forest /\ Throw(TrainFailedMsg)
    /\ UNCHANGED <<cli, plan, configuration, exporterCalls, warnings>>

\* a plausible slip: the export does not look at outputFolder
ExportUnguarded ==
    /\ pc = "Export"
    /\ steps' = Append(steps, "Export")
    /\ exporterCalls' =
          Append(exporterCalls,
                 [outputFolder |-> outputFolder, configuration |-> configuration[1]])
    /\ Return("Done", "EXIT_SUCCESS")
    /\ UNCHANGED <<cli, plan, configuration, trainerCalls, forest, warnings>>

\* an output folder was given: RandomTreeExport::writeJSON, then return EXIT_SUCCESS
Export ==
    /\ pc = "Export"
    /\ outputFolder # ""
    /\ steps' = Append(steps, "Export")
    /\ exporterCalls' =
          Append(exporterCalls,
                 [outputFolder |-> outputFolder, configuration |-> configuration[1]])
    /\ Return("Done", "EXIT_SUCCESS")
    /\ UNCHANGED <<cli, plan, configuration, trainerCalls, forest, warnings>>

\* no output folder: a warning, then return EXIT_SUCCESS
SkipExport ==
    /\ pc = "Export"
    /\ outputFolder = ""
    /\ steps' = Append(steps, "SkipExport")
    /\ warnings' = Append(warnings, NoOutputWarning)
    /\ Return("Done", "EXIT_SUCCESS")
    /\ UNCHANGED <<cli, plan, configuration, trainerCalls, forest, exporterCalls>>

Next ==
    \/ ShowHelp
    \/ ShowVersion
    \/ NotifyFails
    \/ Notify
    \/ SelectDevices
    \/ ProbeDevice
    \/ ProbeFails
    \/ AutoCacheSize
    \/ LoadImages
    \/ PlanCache
    \/ PlanBatch
    \/ PlanBatchDivisionTraps
    \/ PlanBatchDivisionYields
    \/ AssembleConfig
    \/ Train
    \/ Export
    \/ SkipExport

Spec == Init /\ [][Next]_vars

----------------------------------------------------------------------------
(* Quantities of the specification, over mathematical integers *)

Entered(step) == \E i \in DOMAIN steps : steps[i] = step

\* requestedMB * 1024 * 1024 >= totalFreeBytes, without wrap-around
MathCacheAtLeastFree(mb, free) ==
    mb >= 0 /\ U64Leq(free, WideMul(FromNat(mb), BytesPerMB))

\* (totalFreeBytes - cacheBytes) / 3, for 0 <= cacheBytes < totalFreeBytes
MathBudget(free, mb) ==
    U64Div(WideSub(free, WideMul(FromNat(mb), BytesPerMB)), FromNat(3))

\* 10 * (2 * weightSize * featureCount * numThresholds)
MathHistogramBytes(fc, nt) == FromNat(10 * (2 * sizeofWeightType * fc * nt))

\* remaining >= 0 and floor(remaining / bytesPerSample) >= k
MathQuotientAtLeast(free, mb, fc, nt, k) ==
    /\ U64Leq(MathHistogramBytes(fc, nt), MathBudget(free, mb))
    /\ U64Leq(FromNat(k),
              U64Div(WideSub(MathBudget(free, mb), MathHistogramBytes(fc, nt)),
                     FromNat(2 * sizeofFeatureResponseType * fc)))

\* min(floor(remaining / bytesPerSample), 50000), for a quotient >= 0
MathSamplesPerBatch(free, mb, fc, nt) ==
    IF MathQuotientAtLeast(free, mb, fc, nt, 50000) THEN 50000
    ELSE ToInt(U64Div(WideSub(MathBudget(free, mb), MathHistogramBytes(fc, nt)),
                      FromNat(2 * sizeofFeatureResponseType * fc)))

U64Min(a, b) == IF U64Less(b, a) THEN b ELSE a

----------------------------------------------------------------------------
(* Claims *)

\* C1: whenever the batch planner has run with featureCount >= 1 and the
\* quotient floor(((free - cache) / 3 - histogram) / bytesPerSample), taken over
\* mathematical integers, is below 1000 (a negative remainder included), the
\* run has aborted with the memory-headroom error and the trainer was not
\* called.
C1_FloorAborts ==
    (/\ Entered("PlanBatch")
     /\ featureCount >= 1
     /\ ~MathQuotientAtLeast(freeMemoryOnGPU, imageCacheSizeMB, featureCount,
                             numThresholds, 1000))
    => (pc = "Fatal" /\ error = HeadroomMsg /\ trainerCalls = <<>>)

\* C2: once the probe loop is over, freeMemoryOnGPU is the least of the values
\* getFreeMemoryOnGPU reported, a reported 0 included.
C2_ProbeMinimum ==
    (pc = "LoadImages" \/ Entered("LoadImages"))
    => freeMemoryOnGPU = minReading[1]

\* C3: a cache budget of at least the free memory aborts the run with "image
\* cache size too large" before the trainer or the exporter is called; whenever
\* the trainer has been called the budget is strictly less than the free memory.
C3_CacheBudgetCeiling ==
    /\ (Entered("PlanCache") /\ MathCacheAtLeastFree(imageCacheSizeMB, freeMemoryOnGPU))
       => (/\ pc = "Fatal"
           /\ error = CacheTooLargeMsg
           /\ trainerCalls = <<>>
           /\ exporterCalls = <<>>)
    /\ (trainerCalls # <<>> \/ exporterCalls # <<>>)
       => ~MathCacheAtLeastFree(imageCacheSizeMB, freeMemoryOnGPU)

\* C3 witness: a budget of exactly the free memory (3 MB of 3 MB) was refused.
C3_Witness ==
    /\ pc = "Fatal"
    /\ error = CacheTooLargeMsg
    /\ requestedCacheSizeMB = 3
    /\ freeMemoryOnGPU = CacheBytes(3)

\* C4: the maxSamplesPerBatch of every TrainingConfiguration built, and of
\* every configuration the trainer is called with, lies in 1000..50000.
C4_BatchSizeRange ==
    /\ configuration # <<>>
       => configuration[1].maxSamplesPerBatch \in MinSamplesPerBatch..MaxSamplesCeiling
    /\ \A i \in DOMAIN trainerCalls :
          trainerCalls[i].configuration.maxSamplesPerBatch
             \in MinSamplesPerBatch..MaxSamplesCeiling

\* C4 witness: a configuration at the ceiling although memory allows more.
C4_Witness ==
    /\ configuration # <<>>
    /\ featureCount >= 1
    /\ configuration[1].maxSamplesPerBatch = 50000
    /\ MathQuotientAtLeast(freeMemoryOnGPU, imageCacheSizeMB, featureCount,
                           numThresholds, 50001)

\* C5: whenever the batch planner has run with featureCount >= 1 and
\* min(floor(remaining / bytesPerSample), 50000) over mathematical integers is
\* at least 1000, the planner did not fail and maxSamplesPerBatch is exactly
\* that value.
C5_BatchFormula ==
    (/\ Entered("PlanBatch")
     /\ featureCount >= 1
     /\ MathQuotientAtLeast(freeMemoryOnGPU, imageCacheSizeMB, featureCount,
                            numThresholds, 1000))
    => (/\ error # HeadroomMsg
        /\ maxSamplesPerBatch = MathSamplesPerBatch(freeMemoryOnGPU, imageCacheSizeMB,
                                                    featureCount, numThresholds))

\* C6: when the batch planner has succeeded for featureCount and
\* numThresholds, it also succeeds, with a batch size at least as large, for
\* every smaller feature count (>= 1) and for every smaller threshold count,
\* the free memory and the cache budget being the same.
C6_Monotone ==
    (Entered("PlanBatch") /\ featureCount >= 1 /\ pc # "Fatal")
    => /\ \A f \in FeatureCountValues :
             (1 <= f /\ f <= featureCount)
             => LET smaller == PlannedSamplesPerBatch(freeMemoryOnGPU, imageCacheSizeMB,
                                                      f, numThresholds)
                IN  ~BelowFloor(smaller) /\ maxSamplesPerBatch <= smaller
       /\ \A t \in NumThresholdsValues :
             t <= numThresholds
             => LET smaller == PlannedSamplesPerBatch(freeMemoryOnGPU, imageCacheSizeMB,
                                                      featureCount, t)
                IN  ~BelowFloor(smaller) /\ maxSamplesPerBatch <= smaller

\* C7 as stated: the configuration's image cache size is
\* min(imageCount, floor(target / perImageBytes)) with target exactly
\* 0.66 * free for --imageCacheSize 0 and requested * 2^20 otherwise, and that
\* target is the budget the validation and the batch planner use (said of
\* the configurations with at least one feature).
C7_ExactTarget ==
    (configuration # <<>> /\ featureCount >= 1)
    => LET per == FromNat(images[1].sizeInMemory)
           fit == IF requestedCacheSizeMB = 0
                  THEN U64Div(WideMul(freeMemoryOnGPU, FromNat(66)),
                              FromNat(100 * images[1].sizeInMemory))
                  ELSE U64Div(WideMul(FromNat(requestedCacheSizeMB), BytesPerMB), per)
       IN  /\ FromNat(configuration[1].imageCacheSize)
                 = U64Min(FromNat(images[1].count), fit)
           /\ requestedCacheSizeMB = 0
              => WideMul(CacheBytes(imageCacheSizeMB), FromNat(100))
                    = WideMul(freeMemoryOnGPU, FromNat(66))
           /\ requestedCacheSizeMB # 0 => imageCacheSizeMB = requestedCacheSizeMB

\* the cache budget in whole MB: floor(0.66 * free / 2^20) for --imageCacheSize 0
TargetCacheMB ==
    IF requestedCacheSizeMB = 0
    THEN ToInt(U64Div(U64Div(WideMul(freeMemoryOnGPU, FromNat(66)), FromNat(100)),
                      BytesPerMB))
    ELSE requestedCacheSizeMB

\* C7 amended: the same, with the automatic target rounded down to whole MB:
\* target = floor(0.66 * free / 2^20) * 2^20 for --imageCacheSize 0.
C7_WholeMBTarget ==
    /\ (pc = "LoadImages" \/ Entered("LoadImages")) => imageCacheSizeMB = TargetCacheMB
    /\ configuration # <<>>
       => FromNat(configuration[1].imageCacheSize)
             = U64Min(FromNat(images[1].count),
                      U64Div(WideMul(FromNat(TargetCacheMB), BytesPerMB),
                             FromNat(images[1].sizeInMemory)))

\* C7 witness: an automatic budget that holds some of the images, not all.
C7_Witness ==
    /\ configuration # <<>>
    /\ requestedCacheSizeMB = 0
    /\ configuration[1].imageCacheSize > 0
    /\ configuration[1].imageCacheSize < images[1].count

StepRank(step) ==
    CASE step = "ProbeMemory" -> 1
      [] step = "LoadImages" -> 2
      [] step = "PlanCache" -> 3
      [] step = "PlanBatch" -> 4
      [] step = "AssembleConfig" -> 5
      [] step = "Train" -> 6
      [] step \in {"Export", "SkipExport"} -> 7

\* C8: the steps are entered at most once each and in pipeline order; the
\* trainer is called only with the probe, the cache check, the floor check
\* and the configuration assembly behind it, all passed; a failed run is in
\* Fatal with a non-zero status, takes no further step, and has called the
\* trainer only if it was the trainer that failed, and never the exporter.
C8_PipelineOrder ==
    /\ \A i, j \in DOMAIN steps : i < j => StepRank(steps[i]) < StepRank(steps[j])
    /\ \A i \in DOMAIN steps : i > 1 => StepRank(steps[i]) = StepRank(steps[i - 1]) + 1
    /\ Len(trainerCalls) <= 1
    /\ trainerCalls # <<>>
       => /\ SubSeq(steps, 1, 6) = <<"ProbeMemory", "LoadImages", "PlanCache",
                                     "PlanBatch", "AssembleConfig", "Train">>
          /\ probed = Len(deviceIds)
          /\ ~CacheTooLarge(imageCacheSizeMB, freeMemoryOnGPU)
          /\ ~BelowFloor(maxSamplesPerBatch)
          /\ ModeAccepted(modeString)
          /\ configuration # <<>>
          /\ trainerCalls[1].configuration = configuration[1]
    /\ pc = "Fatal"
       => /\ exitStatus \in {"terminate", "SIGFPE"}
          /\ ~ENABLED Next
          /\ exporterCalls = <<>>
          /\ forest = <<>>
          /\ trainerCalls # <<>> => error = TrainFailedMsg
    /\ (error # "" \/ exitStatus = "SIGFPE") => pc = "Fatal"

\* C8 witness: a run that failed the floor check and stopped there.
C8_Witness ==
    /\ pc = "Fatal"
    /\ error = HeadroomMsg
    /\ steps = <<"ProbeMemory", "LoadImages", "PlanCache", "PlanBatch">>
    /\ trainerCalls = <<>>

\* C9: the trainer is called with sequential = ~trainTreesInParallel, and
\* sequentially when the command line does not name trainTreesInParallel
\* (said of the calls whose configuration has at least one feature, where the
\* planning before the call is defined).
C9_SequentialByDefault ==
    \A i \in DOMAIN trainerCalls :
       trainerCalls[i].configuration.featureCount >= 1
       => /\ trainerCalls[i].sequential = ~trainTreesInParallel
          /\ "trainTreesInParallel" \notin vm => trainerCalls[i].sequential

====
